---- MODULE Spec2Model ----
(***************************************************************************)
(* Model of dolma_batch_process.py: one batch run of main() (manifest ->   *)
(* DuckDB extraction -> parquet export -> Hugging Face upload), the helper *)
(* upload_to_hf() and the scalar function extract_domain_udf().            *)
(*                                                                         *)
(* Strings are sequences of one-character strings, so that join, replace   *)
(* and strip are computed character by character as Python computes them.  *)
(* Host names are sequences of labels ("a.b" is <<"a","b">>).              *)
(***************************************************************************)
EXTENDS Integers, Sequences, FiniteSets, TLC

\* ------------------------------------------------------------------ bounds
MaxLen == 2        \* longest generated account / base name / variant
MaxLabels == 4     \* most labels in a generated host name
MaxFiles == 2      \* most files a manifest lists
MaxRecords == 1    \* most records in one input file

\* ----------------------------------------------------------------- strings
\* Python's None, kept apart from every string (also from the empty string).
NoneVal == <<"<None>">>

SEP == <<"_">>
S_default == <<"d","e","f","a","u","l","t">>
S_Default == <<"D","e","f","a","u","l","t">>
S_alice == <<"a","l","i","c","e">>
S_mydata == <<"m","y","d","a","t","a">>
S_v2 == <<"v","2">>
S_alice__mydata == <<"a","l","i","c","e","_","_","m","y","d","a","t","a">>
S_alice_mydata == <<"a","l","i","c","e","_","m","y","d","a","t","a">>
S_alice_mydata_v2 == S_alice_mydata \o <<"_","v","2">>
S_alice_mydata_v2_v2 == S_alice_mydata_v2 \o <<"_","v","2">>

\* str.lower() on one character (the only upper-case letter generated is "D").
LowerChar(c) == IF c = "D" THEN "d" ELSE c

\* str.lower()
Lower(s) == [i \in 1..Len(s) |-> LowerChar(s[i])]

\* sep.join(parts)
RECURSIVE Join(_, _)
Join(parts, sep) ==
  IF Len(parts) = 0 THEN <<>>
  ELSE IF Len(parts) = 1 THEN parts[1]
  ELSE parts[1] \o sep \o Join(Tail(parts), sep)

\* s.replace("__", "_"): one left-to-right pass over non-overlapping matches.
RECURSIVE ReplaceDouble(_)
ReplaceDouble(s) ==
  IF Len(s) < 2 THEN s
  ELSE IF s[1] = "_" /\ s[2] = "_"
       THEN <<"_">> \o ReplaceDouble(SubSeq(s, 3, Len(s)))
       ELSE <<s[1]>> \o ReplaceDouble(Tail(s))

RECURSIVE LStrip(_)
LStrip(s) == IF Len(s) > 0 /\ s[1] = "_" THEN LStrip(Tail(s)) ELSE s

RECURSIVE RStrip(_)
RStrip(s) ==
  IF Len(s) > 0 /\ s[Len(s)] = "_" THEN RStrip(SubSeq(s, 1, Len(s) - 1)) ELSE s

\* s.strip("_")
Strip(s) == RStrip(LStrip(s))

\* Truthiness of args.hf_variant: None and "" are both falsy.
Truthy(v) == v # NoneVal /\ Len(v) > 0

\* Parts that always carry the variant.
RepoIdPartsAlways(a) ==
  <<a.hf_username, a.hf_base_dataset_name, a.hf_variant>>

\* repo_id_parts as built by upload_to_hf.
RepoIdParts(a) ==
  IF Truthy(a.hf_variant) /\ Lower(a.hf_variant) # S_default
  THEN <<a.hf_username, a.hf_base_dataset_name, a.hf_variant>>
  ELSE <<a.hf_username, a.hf_base_dataset_name>>

\* repo_id.replace("__", "_").strip("_")
CleanUnderscores(s) == Strip(ReplaceDouble(s))

\* The repository identifier of upload_to_hf.
ComposeRepoId(a) == CleanUnderscores(Join(RepoIdParts(a), SEP))

\* output_parquet_file: directory and file name kept apart.
OutputParquetFile(a) ==
  [dir |-> a.output_dir,
   name |-> <<a.hf_base_dataset_name, "_extracted_inner_urls_batch_",
              a.batch_num, ".parquet">>]

\* os.path.basename
Basename(p) == p.name

\* path_in_repo = f"data/{basename}"
PathInRepo(p) == <<"data/", Basename(p)>>

\* -------------------------------------------------- tldextract and the UDF
\* The public suffix list, cut down to three entries.
PublicSuffixes == {<<"com">>, <<"uk">>, <<"co","uk">>}

Labels == {"sub", "example", "co", "uk", "com"}

\* The last k labels of a host.
LastLabels(h, k) == SubSeq(h, Len(h) - k + 1, Len(h))

\* Length of the longest public suffix the host ends with (0: none).
SuffixLen(h) ==
  LET ks == {k \in 1..Len(h) : LastLabels(h, k) \in PublicSuffixes}
  IN IF ks = {} THEN 0 ELSE CHOOSE k \in ks : \A j \in ks : j <= k

\* tldextract.extract(url) for a url whose host is h: the suffix is the longest
\* public suffix, the domain the label before it ("" when there is none).
TldExtract(h) ==
  LET k == SuffixLen(h)
  IN [subdomain |-> IF Len(h) > k + 1 THEN SubSeq(h, 1, Len(h) - k - 1) ELSE <<>>,
      domain |-> IF Len(h) > k THEN <<h[Len(h) - k]>> ELSE <<>>,
      suffix |-> LastLabels(h, k)]

\* A url value: None, or a string whose host has the given labels; raises says
\* whether tldextract.extract raises on it.
NoneUrl == [none |-> TRUE, host |-> <<>>, raises |-> FALSE]

StrUrl(h, r) == [none |-> FALSE, host |-> h, raises |-> r]

\* The outcome of a Python call: a returned value or a raised exception.
Returned(v) == [raised |-> FALSE, value |-> v]

Raised == [raised |-> TRUE, value |-> NoneVal]

\* extract_domain_udf without the suffix test.
extract_domain_udf_no_suffix_test(url) ==
  IF url.none THEN Returned(NoneVal)
  ELSE IF url.raises THEN Returned(NoneVal)
  ELSE LET extracted == TldExtract(url.host)
       IN IF extracted.domain = <<>>
          THEN Returned(NoneVal)
          ELSE Returned(extracted.domain \o extracted.suffix)

\* extract_domain_udf(url): f"{domain}.{suffix}" is the label sequence
\* domain \o suffix.
extract_domain_udf(url) ==
  IF url.none THEN Returned(NoneVal)
  ELSE IF url.raises THEN Returned(NoneVal)
  ELSE LET extracted == TldExtract(url.host)
       IN IF extracted.domain = <<>> \/ extracted.suffix = <<>>
          THEN Returned(NoneVal)
          ELSE Returned(extracted.domain \o extracted.suffix)

\* ------------------------------------------------------------ input records
\* One JSON line: without a metadata object, with a metadata object that has
\* no url key, or with metadata.url set.
RecNoMetadata == [metadata |-> "absent", url |-> NoneUrl]

RecNoUrl == [metadata |-> "no_url", url |-> NoneUrl]

RecUrl(u) == [metadata |-> "url", url |-> u]

\* Urls that occur in input records: one with a registered domain, one without.
UrlSubExampleCoUk == StrUrl(<<"sub", "example", "co", "uk">>, FALSE)

UrlNoSuffix == StrUrl(<<"example">>, FALSE)

Records == {RecNoMetadata, RecNoUrl, RecUrl(UrlSubExampleCoUk), RecUrl(UrlNoSuffix)}

\* All sequences over S of length at most n.
SeqsUpTo(S, n) == UNION {[1..k -> S] : k \in 0..n}

\* A local file: missing, not readable as gzip JSON lines, or a list of records.
MissingFile == [status |-> "missing", records |-> <<>>]

CorruptFile == [status |-> "corrupt", records |-> <<>>]

GoodFile(rs) == [status |-> "ok", records |-> rs]

FileStates == {MissingFile, CorruptFile} \cup {GoodFile(rs) : rs \in SeqsUpTo(Records, MaxRecords)}

\* ------------------------------------------------------------------- state
VARIABLES
  pc,               \* position of the run in main() / upload_to_hf()
  args,             \* the argparse namespace
  manifest,         \* the manifest file: readable or not, and the paths it lists
  files,            \* the local JSON files, by path
  failAt,           \* the external call that fails in this run, if any
  fs_output,        \* what is at output_parquet_file
  con,              \* the DuckDB connection of main()
  rows,             \* the result set of the query
  error,            \* the exception being propagated
  stages,           \* the stages of the batch state machine passed so far
  repo_id,          \* repo_id of upload_to_hf
  createRepoCalls,  \* number of api.create_repo calls
  uploadFileCalls,  \* number of api.upload_file calls
  remoteRepos,      \* repositories that exist on the hub
  remoteFiles,      \* files on the hub, as <<repo_id, path_in_repo>>
  udf_url,          \* argument of a direct extract_domain_udf call
  udf_out           \* its outcome

vars == <<pc, args, manifest, files, failAt, fs_output, con, rows, error, stages,
          repo_id, createRepoCalls, uploadFileCalls, remoteRepos, remoteFiles,
          udf_url, udf_out>>

udfVars == <<udf_url, udf_out>>

inputVars == <<args, manifest, files, failAt>>

remoteVars == <<repo_id, createRepoCalls, uploadFileCalls, remoteRepos, remoteFiles>>

\* The namespace parse_args() returns. The parser of main() defines no
\* json_inner_url_path option, so a namespace built by that parser has no such
\* attribute; has_json_inner_url_path is TRUE only for a namespace supplied by
\* a caller that replaces parse_args().
Namespace(user, base, variant, hasPath) ==
  [hf_username |-> user, hf_base_dataset_name |-> base, hf_variant |-> variant,
   batch_num |-> 1, output_dir |-> "out", has_json_inner_url_path |-> hasPath]

\* Generated strings over the alphabet {"a", "_"}.
ShortStrings == SeqsUpTo({"a", "_"}, MaxLen)

Usernames == ShortStrings \cup {S_alice, S_alice__mydata}

BaseNames == ShortStrings \cup {S_mydata, S_v2}

Variants == ShortStrings \cup {NoneVal, S_default, S_Default, S_v2}

Manifests ==
  {[ok |-> FALSE, fpaths |-> <<>>]} \cup
  {[ok |-> TRUE, fpaths |-> [i \in 1..n |-> i]] : n \in 1..MaxFiles}

\* The files the manifest lists, every other path being missing.
FileSystems(m) ==
  {fs \in [1..MaxFiles -> FileStates] :
     \A i \in 1..MaxFiles : i > Len(m.fpaths) => fs[i] = MissingFile}

IdleRemote ==
  /\ repo_id = NoneVal
  /\ createRepoCalls = 0
  /\ uploadFileCalls = 0
  /\ remoteRepos = {}
  /\ remoteFiles = {}

IdleUdf ==
  /\ udf_url = NoneUrl
  /\ udf_out = Returned(NoneVal)

\* A batch run: the process is started with main().
Init ==
  /\ pc = "START"
  /\ args \in {Namespace(<<"a">>, <<"a">>, NoneVal, h) : h \in BOOLEAN}
  /\ manifest \in Manifests
  /\ files \in FileSystems(manifest)
  /\ failAt \in {"none", "connect", "export", "create_repo", "upload_file"}
  /\ fs_output \in {"absent", "stale"}
  /\ con = "undefined"
  /\ rows = <<>>
  /\ error = "none"
  /\ stages = <<"START">>
  /\ IdleRemote
  /\ IdleUdf

\* ------------------------------------------------------------------ main()
Enter(stage) == stages' = Append(stages, stage)

\* Lines 69-83: parse_args, makedirs, and the two logger.info calls. The second
\* f-string reads args.json_inner_url_path, which raises AttributeError when
\* the namespace has no such attribute; the try statement has not been entered.
ParseArgsAndLog ==
  /\ pc = "START"
  /\ IF args.has_json_inner_url_path
     THEN /\ pc' = "TRY"
          /\ UNCHANGED <<error, stages>>
     ELSE /\ pc' = "FAILED"
          /\ error' = "AttributeError"
          /\ Enter("FAILED")
  /\ UNCHANGED <<inputVars, fs_output, con, rows, remoteVars, udfVars>>

\* Lines 86-89: duckdb.connect() and create_function.
Connect ==
  /\ pc = "TRY"
  /\ IF failAt = "connect"
     THEN /\ pc' = "EXCEPT"
          /\ error' = "ConnectError"
          /\ UNCHANGED con
     ELSE /\ pc' = "READ_MANIFEST"
          /\ con' = "open"
          /\ UNCHANGED error
  /\ UNCHANGED <<inputVars, fs_output, rows, stages, remoteVars, udfVars>>

\* Lines 92-98: read_csv and the list of local paths.
ReadManifest ==
  /\ pc = "READ_MANIFEST"
  /\ IF manifest.ok
     THEN /\ pc' = "QUERY"
          /\ Enter("MANIFEST_LOADED")
          /\ UNCHANGED error
     ELSE /\ pc' = "EXCEPT"
          /\ error' = "ManifestError"
          /\ UNCHANGED stages
  /\ UNCHANGED <<inputVars, fs_output, con, rows, remoteVars, udfVars>>

\* The records of the listed files, in manifest order.
RECURSIVE AllRecords(_, _)
AllRecords(fs, fpaths) ==
  IF fpaths = <<>> THEN <<>>
  ELSE fs[Head(fpaths)].records \o AllRecords(fs, Tail(fpaths))

\* read_json is given no column list: the columns are inferred from the data,
\* and metadata.url binds only if some record carries that field.
SchemaHasMetadataUrl(recs) == \E i \in 1..Len(recs) : recs[i].metadata = "url"

\* metadata.url of one record under the inferred schema: NULL where missing.
MetadataUrl(rec) == IF rec.metadata = "url" THEN rec.url ELSE NoneUrl

\* The urls CTE without the WHERE clause.
UrlsUnfiltered(recs) == [i \in 1..Len(recs) |-> MetadataUrl(recs[i])]

\* The urls CTE followed by WHERE url IS NOT NULL.
Urls(recs) ==
  LET NotNull(u) == ~u.none
  IN SelectSeq([i \in 1..Len(recs) |-> MetadataUrl(recs[i])], NotNull)

\* SELECT url, extract_domain(url) AS domain FROM urls WHERE url IS NOT NULL
QueryRows(recs) ==
  LET us == Urls(recs)
  IN [i \in 1..Len(us) |-> [url |-> us[i], domain |-> extract_domain_udf(us[i]).value]]

\* Whether the scalar function raises on some row of the query.
UdfRaises(recs) ==
  LET us == Urls(recs)
  IN \E i \in 1..Len(us) : extract_domain_udf(us[i]).raised

\* Line 115, reading side of COPY (query) TO: binding and scanning the files.
ExecuteQuery ==
  /\ pc = "QUERY"
  /\ LET recs == AllRecords(files, manifest.fpaths)
     IN IF \E i \in 1..Len(manifest.fpaths) : files[manifest.fpaths[i]].status # "ok"
        THEN /\ pc' = "EXCEPT"
             /\ error' = "IOError"
             /\ UNCHANGED <<rows, stages>>
        ELSE IF ~SchemaHasMetadataUrl(recs)
        THEN /\ pc' = "EXCEPT"
             /\ error' = "BinderError"
             /\ UNCHANGED <<rows, stages>>
        ELSE IF UdfRaises(recs)
        THEN /\ pc' = "EXCEPT"
             /\ error' = "UdfError"
             /\ UNCHANGED <<rows, stages>>
        ELSE /\ pc' = "COPY_TO"
             /\ rows' = QueryRows(recs)
             /\ Enter("EXTRACTED")
             /\ UNCHANGED error
  /\ UNCHANGED <<inputVars, fs_output, con, remoteVars, udfVars>>

\* Line 115, writing side of COPY (query) TO: a failed write leaves either what
\* was at the path before or a partial file.
CopyTo ==
  /\ pc = "COPY_TO"
  /\ IF failAt = "export"
     THEN /\ pc' = "EXCEPT"
          /\ error' = "WriteError"
          /\ fs_output' \in {fs_output, "partial"}
          /\ UNCHANGED stages
     ELSE /\ pc' = "FINALLY"
          /\ fs_output' = "complete"
          /\ Enter("EXPORTED")
          /\ UNCHANGED error
  /\ UNCHANGED <<inputVars, con, rows, remoteVars, udfVars>>

\* A handler that leaves the file where it is.
NoCleanup(out) == out

\* Lines 125-126: if os.path.exists(output_parquet_file): os.remove(...)
ExceptCleanup(out) == "absent"

\* Lines 120-127: the except clause of main().
ExceptHandler ==
  /\ pc = "EXCEPT"
  /\ fs_output' = ExceptCleanup(fs_output)
  /\ pc' = "FINALLY"
  /\ UNCHANGED <<inputVars, con, rows, error, stages, remoteVars, udfVars>>

\* A finally clause that forgets the connection.
LeaveOpen(c) == c

\* Lines 129-130: if "con" in locals() and con: con.close()
CloseIfDefined(c) == IF c = "open" THEN "closed" ELSE c

\* Lines 128-133: the finally clause, then either the re-raised exception
\* leaves main() or control reaches the upload_to_hf call.
FinallyClose ==
  /\ pc = "FINALLY"
  /\ con' = CloseIfDefined(con)
  /\ IF error # "none"
     THEN /\ pc' = "FAILED"
          /\ Enter("FAILED")
     ELSE /\ pc' = "CALL_UPLOAD"
          /\ UNCHANGED stages
  /\ UNCHANGED <<inputVars, fs_output, rows, error, remoteVars, udfVars>>

\* Another process removes the output file between the export and the
\* os.path.exists test of upload_to_hf (the state that test is written for).
EnvRemoveOutput ==
  /\ pc = "CALL_UPLOAD"
  /\ fs_output # "absent"
  /\ fs_output' = "absent"
  /\ UNCHANGED <<pc, inputVars, con, rows, error, stages, remoteVars, udfVars>>

\* ----------------------------------------------------------- upload_to_hf()
\* Lines 139-148: a missing file is logged and the function returns normally.
CheckExists ==
  /\ pc = "CALL_UPLOAD"
  /\ IF fs_output = "absent"
     THEN /\ pc' = "SKIPPED"
          /\ Enter("SKIPPED")
     ELSE /\ pc' = "COMPOSE"
          /\ UNCHANGED stages
  /\ UNCHANGED <<inputVars, fs_output, con, rows, error, remoteVars, udfVars>>

\* Lines 151-157.
ComposeRepo ==
  /\ pc = "COMPOSE"
  /\ repo_id' = ComposeRepoId(args)
  /\ pc' = "CREATE_REPO"
  /\ UNCHANGED <<inputVars, fs_output, con, rows, error, stages, createRepoCalls,
                 uploadFileCalls, remoteRepos, remoteFiles, udfVars>>

\* Line 159: api.create_repo(repo_id, exist_ok=True, repo_type="dataset")
CreateRepo ==
  /\ pc = "CREATE_REPO"
  /\ createRepoCalls' = createRepoCalls + 1
  /\ IF failAt = "create_repo"
     THEN /\ pc' = "UPLOAD_EXCEPT"
          /\ error' = "CreateRepoError"
          /\ UNCHANGED remoteRepos
     ELSE /\ pc' = "UPLOAD_FILE"
          /\ remoteRepos' = remoteRepos \cup {repo_id}
          /\ UNCHANGED error
  /\ UNCHANGED <<inputVars, fs_output, con, rows, stages, repo_id, uploadFileCalls,
                 remoteFiles, udfVars>>

\* Lines 160-171: api.upload_file(...) under data/<basename>.
UploadFile ==
  /\ pc = "UPLOAD_FILE"
  /\ uploadFileCalls' = uploadFileCalls + 1
  /\ IF failAt = "upload_file"
     THEN /\ pc' = "UPLOAD_EXCEPT"
          /\ error' = "UploadError"
          /\ UNCHANGED <<remoteFiles, stages>>
     ELSE /\ pc' = "UPLOADED"
          /\ remoteFiles' = remoteFiles \cup {<<repo_id, PathInRepo(OutputParquetFile(args))>>}
          /\ Enter("UPLOADED")
          /\ UNCHANGED error
  /\ UNCHANGED <<inputVars, fs_output, con, rows, repo_id, createRepoCalls,
                 remoteRepos, udfVars>>

\* A handler that removes the local file before re-raising.
RemoveOnUploadError(out) == "absent"

\* Lines 172-176 leave the local file alone: the handler logs and re-raises.
KeepOnUploadError(out) == out

\* Lines 172-176: the except clause of upload_to_hf().
UploadExcept ==
  /\ pc = "UPLOAD_EXCEPT"
  /\ fs_output' = KeepOnUploadError(fs_output)
  /\ pc' = "FAILED"
  /\ Enter("FAILED")
  /\ UNCHANGED <<inputVars, con, rows, error, remoteVars, udfVars>>

Next ==
  \/ ParseArgsAndLog
  \/ Connect
  \/ ReadManifest
  \/ ExecuteQuery
  \/ CopyTo
  \/ ExceptHandler
  \/ FinallyClose
  \/ EnvRemoveOutput
  \/ CheckExists
  \/ ComposeRepo
  \/ CreateRepo
  \/ UploadFile
  \/ UploadExcept

Spec == Init /\ [][Next]_vars

\* ------------------------------------------- upload_to_hf() called directly
\* upload_to_hf(args, path) called by an importer of the module, for every
\* account, base name and variant, with the file present or not.
InitUpload ==
  /\ pc = "CALL_UPLOAD"
  /\ args \in {Namespace(u, b, v, FALSE) : u \in Usernames, b \in BaseNames, v \in Variants}
  /\ manifest = [ok |-> FALSE, fpaths |-> <<>>]
  /\ files = [i \in 1..MaxFiles |-> MissingFile]
  /\ failAt \in {"none", "create_repo", "upload_file"}
  /\ fs_output \in {"absent", "complete"}
  /\ con = "undefined"
  /\ rows = <<>>
  /\ error = "none"
  /\ stages = <<>>
  /\ IdleRemote
  /\ IdleUdf

NextUpload ==
  \/ CheckExists
  \/ ComposeRepo
  \/ CreateRepo
  \/ UploadFile
  \/ UploadExcept

SpecUpload == InitUpload /\ [][NextUpload]_vars

\* ------------------------------------- extract_domain_udf() called directly
UdfInputs ==
  {NoneUrl} \cup {StrUrl(h, r) : h \in SeqsUpTo(Labels, MaxLabels), r \in BOOLEAN}

InitUdf ==
  /\ pc = "UDF_CALL"
  /\ udf_url \in UdfInputs
  /\ udf_out = Returned(NoneVal)
  /\ args = Namespace(<<"a">>, <<"a">>, NoneVal, FALSE)
  /\ manifest = [ok |-> FALSE, fpaths |-> <<>>]
  /\ files = [i \in 1..MaxFiles |-> MissingFile]
  /\ failAt = "none"
  /\ fs_output = "absent"
  /\ con = "undefined"
  /\ rows = <<>>
  /\ error = "none"
  /\ stages = <<>>
  /\ IdleRemote

\* Lines 22-35.
CallUdf ==
  /\ pc = "UDF_CALL"
  /\ udf_out' = extract_domain_udf(udf_url)
  /\ pc' = "UDF_DONE"
  /\ UNCHANGED <<inputVars, fs_output, con, rows, error, stages, remoteVars, udf_url>>

NextUdf == CallUdf

SpecUdf == InitUdf /\ [][NextUdf]_vars

\* ------------------------------------------------------------------ claims
ListedFiles == {manifest.fpaths[i] : i \in 1..Len(manifest.fpaths)}

ReturnedNormally == pc \in {"UPLOADED", "SKIPPED"}

Composed == pc \in {"CREATE_REPO", "UPLOAD_FILE", "UPLOAD_EXCEPT", "UPLOADED", "FAILED"}

RemoteErrors == {"CreateRepoError", "UploadError"}

LocalErrors ==
  {"AttributeError", "ConnectError", "ManifestError", "IOError", "BinderError",
   "UdfError", "WriteError"}

\* C1: with a readable manifest, valid input files and no failing export or
\* remote call, the run never enters FAILED, and when it has ended it is in
\* UPLOADED after MANIFEST_LOADED, EXTRACTED and EXPORTED in that order.
C1_Claim ==
  (/\ manifest.ok
   /\ \A f \in ListedFiles : files[f].status = "ok"
   /\ failAt = "none")
  => /\ pc # "FAILED"
     /\ ReturnedNormally =>
          /\ pc = "UPLOADED"
          /\ stages = <<"START", "MANIFEST_LOADED", "EXTRACTED", "EXPORTED", "UPLOADED">>

C3_Claim ==
  (manifest.ok /\ \E f \in ListedFiles : files[f].status = "missing")
  => /\ ~ReturnedNormally
     /\ pc = "FAILED" => fs_output = "absent"

\* C4: once create_repo or upload_file has failed, the run is on its way to
\* FAILED (never a normal return), each remote call has been made at most
\* once (the failed one exactly once, nothing after it), and the exported
\* file is still complete at output_path.
C4_RemoteFailureKeepsOutput ==
  error \in RemoteErrors =>
    /\ pc \in {"UPLOAD_EXCEPT", "FAILED"}
    /\ "EXPORTED" \in {stages[i] : i \in 1..Len(stages)}
    /\ createRepoCalls = 1
    /\ uploadFileCalls = (IF error = "UploadError" THEN 1 ELSE 0)
    /\ fs_output = "complete"

C4_Witness ==
  /\ pc = "FAILED"
  /\ error = "UploadError"
  /\ createRepoCalls = 1
  /\ uploadFileCalls = 1
  /\ fs_output = "complete"

WasExported == \E i \in 1..Len(stages) : stages[i] = "EXPORTED"

IsTriple(u, b, v) ==
  /\ args.hf_username = u
  /\ args.hf_base_dataset_name = b
  /\ args.hf_variant = v

\* C6 as stated: the three examples of the repository identifier, the third
\* being "alice_mydata_v2" for ("alice__mydata", "v2", "v2").
C6_Original ==
  Composed =>
    /\ IsTriple(S_alice, S_mydata, NoneVal) => repo_id = S_alice_mydata
    /\ IsTriple(S_alice, S_mydata, S_default) => repo_id = S_alice_mydata
    /\ IsTriple(S_alice__mydata, S_v2, S_v2) => repo_id = S_alice_mydata_v2

\* C6 as amended: the first two examples as stated, and "alice_mydata_v2_v2"
\* for ("alice__mydata", "v2", "v2"), where base name and variant both appear.
C6_Amended ==
  Composed =>
    /\ IsTriple(S_alice, S_mydata, NoneVal) => repo_id = S_alice_mydata
    /\ IsTriple(S_alice, S_mydata, S_default) => repo_id = S_alice_mydata
    /\ IsTriple(S_alice__mydata, S_v2, S_v2) => repo_id = S_alice_mydata_v2_v2

C6_Witness ==
  /\ Composed
  /\ IsTriple(S_alice__mydata, S_v2, S_v2)
  /\ repo_id = S_alice_mydata_v2_v2

\* The parts as C7 words them: the variant is left out exactly when it is
\* absent or the literal "default".
ClaimedParts(a) ==
  IF a.hf_variant = NoneVal \/ a.hf_variant = S_default
  THEN <<a.hf_username, a.hf_base_dataset_name>>
  ELSE <<a.hf_username, a.hf_base_dataset_name, a.hf_variant>>

\* Every run of separators reduced to one separator.
RECURSIVE CollapseRuns(_)
CollapseRuns(s) ==
  IF Len(s) < 2 THEN s
  ELSE IF s[1] = "_" /\ s[2] = "_" THEN CollapseRuns(Tail(s))
  ELSE <<s[1]>> \o CollapseRuns(Tail(s))

NoAdjacentSeparators(s) == \A i \in 1..(Len(s) - 1) : ~(s[i] = "_" /\ s[i + 1] = "_")

NoOuterSeparator(s) == Len(s) > 0 => (s[1] # "_" /\ s[Len(s)] # "_")

\* C7: for every account, base name and variant the identifier is the join
\* of the parts (variant left out exactly when absent or "default") with
\* separators collapsed and trimmed: no two adjacent separators, no leading
\* or trailing separator.
C7_Claim ==
  Composed =>
    /\ repo_id = Strip(CollapseRuns(Join(ClaimedParts(args), SEP)))
    /\ NoAdjacentSeparators(repo_id)
    /\ NoOuterSeparator(repo_id)

\* Number of records of a list whose metadata.url is present.
RECURSIVE CountUrls(_)
CountUrls(recs) ==
  IF recs = <<>> THEN 0
  ELSE (IF Head(recs).metadata = "url" THEN 1 ELSE 0) + CountUrls(Tail(recs))

RegisteredSuffixLen(h, k) ==
  /\ k \in 1..(Len(h) - 1)
  /\ LastLabels(h, k) \in PublicSuffixes
  /\ \A j \in (k + 1)..Len(h) : LastLabels(h, j) \notin PublicSuffixes

HasRegisteredDomain(url) ==
  /\ ~url.none
  /\ ~url.raises
  /\ \E k \in 1..Len(url.host) : RegisteredSuffixLen(url.host, k)

\* C9: extract_domain_udf never raises; its result is absent exactly when the
\* url is absent, unparseable or without a registered domain, and otherwise
\* it is the label before the longest public suffix followed by that suffix.
C9_DomainOrAbsent ==
  pc = "UDF_DONE" =>
    /\ ~udf_out.raised
    /\ (udf_out.value = NoneVal) <=> ~HasRegisteredDomain(udf_url)
    /\ \A k \in 1..Len(udf_url.host) :
         (HasRegisteredDomain(udf_url) /\ RegisteredSuffixLen(udf_url.host, k))
           => udf_out.value = LastLabels(udf_url.host, k + 1)

C9_Witness ==
  /\ pc = "UDF_DONE"
  /\ udf_url = UrlSubExampleCoUk
  /\ udf_out = Returned(<<"example", "co", "uk">>)

\* C10: create_repo is called only after EXPORTED with the connection closed,
\* upload_file only after create_repo has returned, and neither is called in
\* a run that failed before the export completed.
C10_RemoteAfterLocal ==
  /\ createRepoCalls > 0 => (WasExported /\ con = "closed" /\ fs_output = "complete")
  /\ uploadFileCalls > 0 => (createRepoCalls = 1 /\ repo_id \in remoteRepos)
  /\ error \in LocalErrors => (createRepoCalls = 0 /\ uploadFileCalls = 0)

C10_Witness ==
  /\ pc = "UPLOADED"
  /\ createRepoCalls = 1
  /\ uploadFileCalls = 1
  /\ con = "closed"

====
